---------------------------- MODULE Spec2Model ----------------------------
(* A model of src/app.py, the NASA Bio-Query Streamlit dashboard:          *)
(*   - search      (semantic search over precomputed embeddings),          *)
(*   - get_summary (length-gated abstractive summarisation),               *)
(*   - load_data   (the cached loader of the two corpus artifacts),        *)
(*   - main        (one script run of the page per user interaction).      *)
(* Strings are sequences of one-character strings.  The two pretrained     *)
(* models are opaque deterministic functions; their stand-ins below only   *)
(* fix a value for each input.                                             *)
EXTENDS Integers, Sequences, FiniteSets, TLC

VARIABLES
    searchIn,      \* arguments of a call of search
    searchOut,     \* its return value and the encoder calls it made
    summaryIn,     \* argument of a call of get_summary
    summaryOut,    \* its return value and the summarizer calls it made
    disk,          \* publications.csv and embeddings.npy as they are on disk
    dataCache,     \* the st.cache_data entry of load_data
    loads,         \* how many times the body of load_data has run
    session,       \* st.session_state of the browser session
    page,          \* the last script run: its widget values and what it showed
    history        \* what the session has done so far (not program state)

searchVars == <<searchIn, searchOut>>
summaryVars == <<summaryIn, summaryOut>>
pageVars == <<disk, dataCache, loads, session, page, history>>
vars == <<searchIn, searchOut, summaryIn, summaryOut,
          disk, dataCache, loads, session, page, history>>

-----------------------------------------------------------------------------
(* Bounds of the model *)

MaxRows == 3       \* embedding matrices handed to search have at most this many rows
MaxFileRows == 2   \* each artifact on disk holds at most this many rows
MaxFileVec == 1    \* row vectors of embeddings.npy are drawn from 0..MaxFileVec
MaxVec == 2        \* embedding vectors are drawn from 0..MaxVec
MaxTopK == 4       \* top_k arguments tried are 1..MaxTopK
MaxWordLen == 3    \* words of a text have 1..MaxWordLen characters
MaxSepLen == 2     \* and are separated by 1..MaxSepLen whitespace characters
LongWords == 300   \* word count of the longest texts

(* Program constants *)

DefaultTopK == 10
MinWords == 50
MaxInputChars == 1024
SummaryMaxLength == 150
SummaryMinLength == 40

-----------------------------------------------------------------------------
(* Strings *)

Whitespace == {" ", "\t", "\n"}

Min(a, b) == IF a <= b THEN a ELSE b

Abs(a) == IF a >= 0 THEN a ELSE -a

\* Python truthiness of a str: only the empty string is falsy.
Truthy(s) == Len(s) > 0

\* A string that is empty or holds whitespace characters only.
IsBlank(s) == \A i \in 1..Len(s) : s[i] \in Whitespace

-----------------------------------------------------------------------------
(* search *)

Vecs == 0..MaxVec

\* SentenceTransformer.encode: an opaque deterministic map from text to a vector.
Encode(query) == Len(query) % (MaxVec + 1)

\* The score function of semantic_search (cosine similarity): larger is closer.
cos_sim(u, v) == MaxVec - Abs(u - v)

\* torch.topk(scores, min(top_k, N), sorted=False): the index sets of the
\* K largest scores; which of several equal scores it takes is not fixed.
TopKSets(scores, top_k) ==
    LET N == Len(scores)
        K == Min(top_k, N)
    IN  {S \in SUBSET (1..N) :
            /\ Cardinality(S) = K
            /\ \A i \in S : \A j \in (1..N) \ S : scores[i] >= scores[j]}

\* sorted(..., key=score, reverse=True) of the selected rows: the orders of S
\* with non-increasing score.
SortedByScore(S, scores) ==
    LET K == Cardinality(S)
    IN  {p \in [1..K -> S] :
            /\ \A i \in 1..K : \A j \in 1..K : (i # j) => (p[i] # p[j])
            /\ \A i \in 1..(K - 1) : scores[p[i]] >= scores[p[i + 1]]}

\* semantic_search(query_embedding, corpus_embeddings, top_k): one hit list per
\* query (here one query); the set of lists it may return.  corpus_id is 0-based.
semantic_search(query_embedding, embeddings_tensor, top_k) ==
    LET N == Len(embeddings_tensor)
        scores == [i \in 1..N |-> cos_sim(query_embedding, embeddings_tensor[i])]
    IN  UNION { { << [i \in 1..Cardinality(S) |->
                        [corpus_id |-> p[i] - 1, score |-> scores[p[i]]]] >> :
                    p \in SortedByScore(S, scores) } :
                S \in TopKSets(scores, top_k) }

\* search with the hit list handed back in reverse (ascending score).
search_ascending(query, embeddings_tensor, top_k) ==
    IF ~Truthy(query)
    THEN [rets |-> {<< >>}, encodeCalls |-> << >>]
    ELSE LET query_embedding == Encode(query)
             hits == semantic_search(query_embedding, embeddings_tensor, top_k)
         IN  [rets |-> {[i \in 1..Len(h[1]) |-> h[1][Len(h[1]) + 1 - i]] : h \in hits},
              encodeCalls |-> <<query>>]

\* search with top_k not passed on to semantic_search (its default is 10).
search_default_k(query, embeddings_tensor, top_k) ==
    IF ~Truthy(query)
    THEN [rets |-> {<< >>}, encodeCalls |-> << >>]
    ELSE LET query_embedding == Encode(query)
             hits == semantic_search(query_embedding, embeddings_tensor, DefaultTopK)
         IN  [rets |-> {h[1] : h \in hits}, encodeCalls |-> <<query>>]

\* search(query, search_model, embeddings_tensor, top_k): the lists it may
\* return (hits[0]) and the texts it handed to the encoder.
search(query, embeddings_tensor, top_k) ==
    IF ~Truthy(query)
    THEN [rets |-> {<< >>}, encodeCalls |-> << >>]
    ELSE LET query_embedding == Encode(query)
             hits == semantic_search(query_embedding, embeddings_tensor, top_k)
         IN  [rets |-> {h[1] : h \in hits}, encodeCalls |-> <<query>>]

\* Query strings: empty, whitespace only, a word, two words.
Queries == { << >>, <<" ">>, <<" ", "\t">>, <<"a">>, <<"a", " ", "b">> }

\* Those typed into the text area of the page.
PageQueries == { << >>, <<" ">>, <<"a", "b">> }

\* Embedding matrices: up to MaxRows row vectors.
Matrices == UNION { [1..n -> Vecs] : n \in 0..MaxRows }

NotCalled == [done |-> FALSE, ret |-> << >>, encodeCalls |-> << >>]

SearchInit ==
    /\ searchIn \in [query : Queries, embeddings_tensor : Matrices, top_k : 1..MaxTopK]
    /\ searchOut = NotCalled

\* One call of search on the drawn arguments.
SearchCall ==
    /\ ~searchOut.done
    /\ LET r == search(searchIn.query, searchIn.embeddings_tensor, searchIn.top_k)
       IN  \E ret \in r.rets :
              searchOut' = [done |-> TRUE, ret |-> ret, encodeCalls |-> r.encodeCalls]
    /\ UNCHANGED <<searchIn, summaryVars, pageVars>>

-----------------------------------------------------------------------------
(* get_summary *)

Sentinel == "The abstract is too short to generate a meaningful summary."

\* The text of `words` words of `wordLen` letters, `sepLen` characters sepChar
\* between two words and `lead` of them before the first.
MkText(shape) ==
    LET period == shape.wordLen + shape.sepLen
        L == shape.lead
             + (IF shape.words = 0 THEN 0 ELSE shape.words * period - shape.sepLen)
    IN  [i \in 1..L |->
            IF i <= shape.lead THEN shape.sepChar
            ELSE IF ((i - shape.lead - 1) % period) < shape.wordLen THEN "x"
            ELSE shape.sepChar]

\* len(text.split()): the number of maximal runs of non-whitespace characters.
WordCount(text) ==
    Cardinality({i \in 1..Len(text) :
                    /\ text[i] \notin Whitespace
                    /\ (i = 1 \/ text[i - 1] \in Whitespace)})

\* text[:n]
Prefix(text, n) == SubSeq(text, 1, Min(n, Len(text)))

\* The summarization pipeline: an opaque function of its arguments (without
\* sampling, a deterministic one) that returns a list of one record.
Summarizer(call) ==
    << [summary_text |->
            "summary(" \o ToString(Len(call.text))
            \o "," \o ToString(call.max_length) \o "," \o ToString(call.min_length)
            \o "," \o ToString(call.do_sample) \o ")"] >>

\* get_summary with the whole text handed to the model.
get_summary_untruncated(text) ==
    IF ~Truthy(text) \/ WordCount(text) < MinWords
    THEN [ret |-> Sentinel, calls |-> << >>]
    ELSE LET call == [text |-> text, max_length |-> SummaryMaxLength,
                      min_length |-> SummaryMinLength, do_sample |-> FALSE]
             summary == Summarizer(call)
         IN  [ret |-> summary[1].summary_text, calls |-> <<call>>]

\* get_summary with the gate at "at most MinWords words".
get_summary_gate_off_by_one(text) ==
    IF ~Truthy(text) \/ WordCount(text) < MinWords - 1
    THEN [ret |-> Sentinel, calls |-> << >>]
    ELSE LET call == [text |-> Prefix(text, MaxInputChars), max_length |-> SummaryMaxLength,
                      min_length |-> SummaryMinLength, do_sample |-> FALSE]
             summary == Summarizer(call)
         IN  [ret |-> summary[1].summary_text, calls |-> <<call>>]

\* get_summary(text, _summarizer): its return value and the calls it made of
\* the summarization model.
get_summary(text) ==
    IF ~Truthy(text) \/ WordCount(text) < MinWords
    THEN [ret |-> Sentinel, calls |-> << >>]
    ELSE LET call == [text |-> Prefix(text, MaxInputChars), max_length |-> SummaryMaxLength,
                      min_length |-> SummaryMinLength, do_sample |-> FALSE]
             summary == Summarizer(call)
         IN  [ret |-> summary[1].summary_text, calls |-> <<call>>]

TextShapes ==
    [words : {0, 1, MinWords - 1, MinWords, MinWords + 1, LongWords},
     wordLen : 1..MaxWordLen, sepLen : 1..MaxSepLen, sepChar : Whitespace, lead : 0..1]

NotSummarized == [done |-> FALSE, ret |-> "", calls |-> << >>]

SummaryInit ==
    /\ summaryIn \in {MkText(shape) : shape \in TextShapes}
    /\ summaryOut = NotSummarized

\* One call of get_summary on the drawn text.
SummaryCall ==
    /\ ~summaryOut.done
    /\ LET r == get_summary(summaryIn)
       IN  summaryOut' = [done |-> TRUE, ret |-> r.ret, calls |-> r.calls]
    /\ UNCHANGED <<summaryIn, searchVars, pageVars>>

-----------------------------------------------------------------------------
(* load_data and its cache *)

None == [none |-> TRUE, rows |-> << >>]

Some(rows) == [none |-> FALSE, rows |-> rows]

Missing == [exists |-> FALSE, rows |-> << >>]

File(rows) == [exists |-> TRUE, rows |-> rows]

\* The abstracts a row of publications.csv may hold: one below the word gate
\* of get_summary and one at it.
ShortAbstract ==
    [words |-> MinWords - 1, wordLen |-> 1, sepLen |-> 1, sepChar |-> " ", lead |-> 0]

LongAbstract ==
    [words |-> MinWords, wordLen |-> 1, sepLen |-> 1, sepChar |-> " ", lead |-> 0]

Abstracts == {ShortAbstract, LongAbstract}

\* The Abstract column's text of each of them.
AbstractText == [shape \in Abstracts |-> MkText(shape)]

\* publications.csv: missing, or up to MaxFileRows rows whose abstracts
\* alternate between the short and the long one.
CsvFiles ==
    {Missing} \cup
    {File([i \in 1..n |-> IF i % 2 = 1 THEN ShortAbstract ELSE LongAbstract]) :
        n \in 0..MaxFileRows}

\* embeddings.npy: missing, or up to MaxFileRows row vectors.
NpyFiles ==
    {Missing} \cup {File(r) : r \in UNION {[1..n -> 0..MaxFileVec] : n \in 0..MaxFileRows}}

\* load_data with an empty corpus handed back when a file is missing.
load_data_empty_on_missing(d) ==
    IF d.csv.exists /\ d.npy.exists
    THEN [df |-> Some(d.csv.rows), embeddings_tensor |-> Some(d.npy.rows)]
    ELSE [df |-> Some(<< >>), embeddings_tensor |-> Some(<< >>)]

\* The body of load_data: read_csv, then np.load; FileNotFoundError of either
\* gives (None, None).  Nothing compares the two row counts.
load_data(d) ==
    IF d.csv.exists /\ d.npy.exists
    THEN [df |-> Some(d.csv.rows), embeddings_tensor |-> Some(d.npy.rows)]
    ELSE [df |-> None, embeddings_tensor |-> None]

EmptyCache == [cached |-> FALSE, value |-> [df |-> None, embeddings_tensor |-> None]]

\* A cache that never holds what it is given.
cache_data_never_hits(cache, d) ==
    [value |-> load_data(d), cache |-> cache, executed |-> TRUE, copy |-> FALSE]

\* @st.cache_data around load_data (no arguments: one entry).  A miss runs the
\* body and stores its return value serialised; a hit runs nothing and hands
\* the caller a new copy deserialised from the entry, not the object an
\* earlier call returned.
cache_data(cache, d) ==
    IF cache.cached
    THEN [value |-> cache.value, cache |-> cache, executed |-> FALSE, copy |-> TRUE]
    ELSE LET v == load_data(d)
         IN  [value |-> v, cache |-> [cached |-> TRUE, value |-> v],
              executed |-> TRUE, copy |-> FALSE]

-----------------------------------------------------------------------------
(* main: one script run *)

EmptySession == [keys |-> {}, df |-> None, hits |-> << >>]

NoPage ==
    [ran |-> FALSE, query |-> << >>, search_button |-> FALSE, clicked |-> {},
     loaded |-> [df |-> None, embeddings_tensor |-> None], copy |-> FALSE,
     error |-> FALSE, widgets |-> FALSE, info |-> FALSE, success |-> FALSE,
     found |-> 0, warning |-> FALSE, expanders |-> << >>, buttons |-> {},
     summaries |-> << >>, exception |-> FALSE,
     searchCalls |-> 0, encodeCalls |-> 0, summaryCalls |-> 0, summarizerCalls |-> 0]

NoHistory ==
    [searched |-> FALSE, query |-> << >>, loaded |-> FALSE,
     first |-> [df |-> None, embeddings_tensor |-> None]]

\* if 'df' not in st.session_state: st.session_state.df = df
StoreDf(sess, df) ==
    IF "df" \notin sess.keys
    THEN [sess EXCEPT !.keys = @ \cup {"df"}, !.df = df]
    ELSE sess

\* The hits assigned on every run, pressed or not.
StoreHitsEveryRun(sess, search_button, hits) ==
    [sess EXCEPT !.keys = @ \cup {"hits"}, !.hits = hits]

\* if search_button: st.session_state.hits = search(...)
StoreHits(sess, search_button, hits) ==
    IF search_button
    THEN [sess EXCEPT !.keys = @ \cup {"hits"}, !.hits = hits]
    ELSE sess

\* The results area, lines 148-180, once the hits are stored.  df.iloc of a
\* corpus_id that is no row of df raises IndexError and ends the run; what
\* was rendered before it stays.
Results(sess, search_button, df, clicked) ==
    LET has == "hits" \in sess.keys
        hits == sess.hits
        bad == {i \in 1..Len(hits) : hits[i].corpus_id >= Len(df)}
        stop == IF bad = {} THEN Len(hits) + 1
                ELSE CHOOSE i \in bad : \A j \in bad : i <= j
        shown == [i \in 1..(stop - 1) |-> hits[i]]
        pressed == {i \in 1..Len(shown) : shown[i].corpus_id \in clicked}
        outs == [i \in 1..Len(shown) |->
                    IF i \in pressed
                    THEN get_summary(AbstractText[df[shown[i].corpus_id + 1]])
                    ELSE [ret |-> "", calls |-> << >>]]
    IN  [info |-> ~search_button /\ ~has,
         success |-> has /\ hits # << >>,
         found |-> IF has THEN Len(hits) ELSE 0,
         warning |-> has /\ hits = << >>,
         expanders |-> IF has THEN shown ELSE << >>,
         buttons |-> IF has THEN {shown[i].corpus_id : i \in 1..Len(shown)} ELSE {},
         summaries |-> IF has THEN [i \in 1..Len(shown) |-> outs[i].ret] ELSE << >>,
         exception |-> has /\ bad # {},
         summaryCalls |-> IF has THEN Cardinality(pressed) ELSE 0,
         summarizerCalls |->
            IF has THEN Cardinality({i \in pressed : outs[i].calls # << >>}) ELSE 0]

\* if df is None or embeddings_tensor is None
DataMissing(loaded) == loaded.df.none \/ loaded.embeddings_tensor.none

\* One run of main with the widgets' values: the text area's query, whether
\* the search button was pressed, and the summary buttons pressed.
Run(query, search_button, clicked) ==
    LET ld == cache_data(dataCache, disk)
        df == ld.value.df
        embeddings_tensor == ld.value.embeddings_tensor
        sess1 == StoreDf(session, df)
        base == [NoPage EXCEPT !.ran = TRUE, !.loaded = ld.value, !.copy = ld.copy]
    IN  /\ dataCache' = ld.cache
        /\ loads' = loads + (IF ld.executed THEN 1 ELSE 0)
        /\ UNCHANGED disk
        /\ IF DataMissing(ld.value)
           THEN /\ session' = sess1
                /\ page' = [base EXCEPT !.error = TRUE]
                /\ history' = [history EXCEPT
                                 !.loaded = TRUE,
                                 !.first = IF history.loaded THEN @ ELSE ld.value]
           ELSE LET r == IF search_button
                         THEN search(query, embeddings_tensor.rows, DefaultTopK)
                         ELSE [rets |-> {<< >>}, encodeCalls |-> << >>]
                IN  \E hits \in r.rets :
                      LET sess2 == StoreHits(sess1, search_button, hits)
                          res == Results(sess2, search_button, df.rows, clicked)
                      IN  /\ session' = sess2
                          /\ page' = [base EXCEPT
                                 !.query = query, !.search_button = search_button,
                                 !.clicked = clicked, !.widgets = TRUE,
                                 !.info = res.info, !.success = res.success,
                                 !.found = res.found, !.warning = res.warning,
                                 !.expanders = res.expanders, !.buttons = res.buttons,
                                 !.summaries = res.summaries,
                                 !.exception = res.exception,
                                 !.searchCalls = IF search_button THEN 1 ELSE 0,
                                 !.encodeCalls = Len(r.encodeCalls),
                                 !.summaryCalls = res.summaryCalls,
                                 !.summarizerCalls = res.summarizerCalls]
                          /\ history' = [history EXCEPT
                                 !.searched = @ \/ search_button,
                                 !.query = IF search_button THEN query ELSE @,
                                 !.loaded = TRUE,
                                 !.first = IF history.loaded THEN @ ELSE ld.value]

\* The session opens the page: the first run, every widget at its default.
OpenPage ==
    /\ ~page.ran
    /\ Run(<< >>, FALSE, {})
    /\ UNCHANGED <<searchVars, summaryVars>>

\* A rerun with no button pressed: the query edited, or the page reloaded.
\* After a run that stopped at the error no widget exists to hold a query.
Rerun ==
    /\ page.ran
    /\ \E query \in (IF page.widgets THEN PageQueries ELSE {<< >>}) :
          Run(query, FALSE, {})
    /\ UNCHANGED <<searchVars, summaryVars>>

\* "Search for Articles" pressed; the button exists once a run has drawn it.
PressSearch ==
    /\ page.ran /\ page.widgets
    /\ \E query \in PageQueries : Run(query, TRUE, {})
    /\ UNCHANGED <<searchVars, summaryVars>>

\* "Generate AI Summary" of one drawn result pressed; the text area keeps
\* its value.
PressSummary ==
    /\ page.ran /\ page.widgets
    /\ \E paper_index \in page.buttons : Run(page.query, FALSE, {paper_index})
    /\ UNCHANGED <<searchVars, summaryVars>>

-----------------------------------------------------------------------------
(* Specifications *)

SearchIdle == searchIn = [query |-> << >>, embeddings_tensor |-> << >>, top_k |-> 1]
                /\ searchOut = NotCalled

SummaryIdle == summaryIn = << >> /\ summaryOut = NotSummarized

PageInit ==
    /\ disk \in [csv : CsvFiles, npy : NpyFiles]
    /\ dataCache = EmptyCache
    /\ loads = 0
    /\ session = EmptySession
    /\ page = NoPage
    /\ history = NoHistory

PageIdle ==
    /\ disk = [csv |-> Missing, npy |-> Missing]
    /\ dataCache = EmptyCache
    /\ loads = 0
    /\ session = EmptySession
    /\ page = NoPage
    /\ history = NoHistory

Init == PageInit /\ SearchIdle /\ SummaryIdle

Next == OpenPage \/ Rerun \/ PressSearch \/ PressSummary

\* The page: any sequence of script runs of one session.
Spec == Init /\ [][Next]_vars

InitSearch == SearchInit /\ SummaryIdle /\ PageIdle

\* search applied to drawn arguments.
SpecSearch == InitSearch /\ [][SearchCall]_vars

InitSummary == SummaryInit /\ SearchIdle /\ PageIdle

\* get_summary applied to drawn texts.
SpecSummary == InitSummary /\ [][SummaryCall]_vars

-----------------------------------------------------------------------------
(* Properties of search, under SpecSearch *)

Rows == Len(searchIn.embeddings_tensor)

\* C1: for a non-empty query and top_k >= 1, search returns at most top_k hits
\* and their scores never increase from one hit to the next.
C1_SearchSortedAtMostTopK ==
    (searchOut.done /\ Len(searchIn.query) > 0 /\ searchIn.top_k >= 1) =>
        /\ Len(searchOut.ret) <= searchIn.top_k
        /\ \A i \in 1..(Len(searchOut.ret) - 1) :
              searchOut.ret[i].score >= searchOut.ret[i + 1].score

\* A call that cut the corpus down to top_k hits of different scores.
C1_Witness ==
    /\ searchOut.done /\ Len(searchIn.query) > 0
    /\ searchIn.top_k < Rows
    /\ Len(searchOut.ret) = searchIn.top_k
    /\ Len(searchOut.ret) >= 2
    /\ searchOut.ret[1].score > searchOut.ret[2].score

\* C2: for a query that is empty or whitespace only, search returns the empty
\* sequence and does not call the encoder.
C2_BlankQueryReturnsEmpty ==
    (searchOut.done /\ IsBlank(searchIn.query)) =>
        (searchOut.ret = << >> /\ searchOut.encodeCalls = << >>)

\* C8: for a non-empty query, search returns exactly min(top_k, N) hits, all N
\* rows when top_k > N, each with a corpus_id of its own in 0..N-1.
C8_AllHitsWhenTopKExceedsCorpus ==
    (searchOut.done /\ Len(searchIn.query) > 0) =>
        /\ Len(searchOut.ret) = Min(searchIn.top_k, Rows)
        /\ (searchIn.top_k > Rows => Len(searchOut.ret) = Rows)
        /\ \A i \in 1..Len(searchOut.ret) : searchOut.ret[i].corpus_id \in 0..(Rows - 1)
        /\ \A i \in 1..Len(searchOut.ret) : \A j \in 1..Len(searchOut.ret) :
              (i # j) => searchOut.ret[i].corpus_id # searchOut.ret[j].corpus_id

\* A call with top_k above the size of a corpus of several rows.
C8_Witness ==
    /\ searchOut.done /\ Len(searchIn.query) > 0
    /\ Rows >= 2 /\ searchIn.top_k > Rows
    /\ Len(searchOut.ret) = Rows

-----------------------------------------------------------------------------
(* Properties of get_summary, under SpecSummary *)

\* C3: for a text that is empty or has fewer than 50 words, get_summary
\* returns the sentinel and never calls the summarization model.
C3_ShortTextGivesSentinel ==
    (summaryOut.done /\ (Len(summaryIn) = 0 \/ WordCount(summaryIn) < 50)) =>
        /\ summaryOut.ret = "The abstract is too short to generate a meaningful summary."
        /\ summaryOut.calls = << >>

\* A call on a text of 49 words.
C3_Witness ==
    /\ summaryOut.done
    /\ WordCount(summaryIn) = 49
    /\ summaryOut.ret = Sentinel

\* C9: for a text of at least 50 words, get_summary calls the model once, on
\* the first 1024 characters, with max_length 150, min_length 40 and no
\* sampling, and returns that call's summary_text.
C9_LongTextSummarizedOnce ==
    (summaryOut.done /\ WordCount(summaryIn) >= 50) =>
        /\ Len(summaryOut.calls) = 1
        /\ summaryOut.calls[1] =
              [text |-> SubSeq(summaryIn, 1, Min(1024, Len(summaryIn))),
               max_length |-> 150, min_length |-> 40, do_sample |-> FALSE]
        /\ summaryOut.ret = Summarizer(summaryOut.calls[1])[1].summary_text

\* A call on a text longer than 1024 characters, cut to 1024 for the model.
C9_Witness ==
    /\ summaryOut.done
    /\ WordCount(summaryIn) >= 50
    /\ Len(summaryIn) > 1024
    /\ Len(summaryOut.calls) = 1
    /\ Len(summaryOut.calls[1].text) = 1024

-----------------------------------------------------------------------------
(* Properties of the page, under Spec *)

ArtifactMissing == ~disk.csv.exists \/ ~disk.npy.exists

RowCountsDiffer ==
    disk.csv.exists /\ disk.npy.exists /\ Len(disk.csv.rows) # Len(disk.npy.rows)

\* C4: when the table and the embedding matrix differ in row count, loading
\* fails and no corpus becomes usable: no run holds a loaded corpus, searches
\* it or renders results from it.
C4_MismatchedCorpusNeverUsable ==
    (page.ran /\ RowCountsDiffer) =>
        /\ DataMissing(page.loaded)
        /\ page.searchCalls = 0
        /\ page.expanders = << >>
        /\ ~page.exception

\* C5: when an artifact is missing at load, every run shows the blocking
\* error and neither search nor get_summary is ever called.
C5_MissingArtifactsBlock ==
    (page.ran /\ ArtifactMissing) =>
        /\ page.error
        /\ ~page.widgets
        /\ page.searchCalls = 0 /\ page.summaryCalls = 0
        /\ ~history.searched
        /\ "hits" \notin session.keys

\* A rerun of the page with the table present and the matrix missing.
C5_Witness ==
    /\ page.ran /\ page.copy
    /\ disk.csv.exists /\ disk.csv.rows # << >> /\ ~disk.npy.exists
    /\ page.error

\* C6: the "no results" state shows only after a search on a query that is
\* neither empty nor whitespace only, and never together with "no query yet".
C6_NoResultsOnlyAfterRealSearch ==
    /\ page.warning => (history.searched /\ ~IsBlank(history.query))
    /\ ~(page.warning /\ page.info)

C10_HitsChangeOnlyOnSearch ==
    [][ page'.ran =>
          /\ ~page'.search_button =>
                /\ session'.hits = session.hits
                /\ ("hits" \in session'.keys) <=> ("hits" \in session.keys)
                /\ page.widgets =>
                      /\ page'.expanders = page.expanders
                      /\ page'.found = page.found
                      /\ page'.warning = page.warning
          /\ page'.search_button =>
                /\ "hits" \in session'.keys
                /\ session'.hits \in
                      search(page'.query, page'.loaded.embeddings_tensor.rows, 10).rets
                /\ page'.found = Len(session'.hits)
      ]_vars

\* A run started by a summary button, with the stored hits shown again.
C10_Witness ==
    /\ page.ran /\ page.clicked # {} /\ ~page.search_button
    /\ session.hits # << >>
    /\ page.expanders = session.hits
    /\ page.summaryCalls = 1

====
